---- MODULE Spec2Model ----
(***************************************************************************)
(* Model of allenact_plugins/gym_plugin/gym_models.py:                     *)
(*   MemorylessActorCritic              (the spec's VectorActorCritic)     *)
(*   ContrastiveConvolutionalActorCritic (the spec's ImageActorCritic)     *)
(*                                                                         *)
(* A model instance is a record of the attributes __init__ sets; a layer   *)
(* is a record naming its torch class and its widths; nn.Sequential is     *)
(* the left-to-right application of the layer list.  Vector tensors carry  *)
(* numbers in fixed point (One is 1.0); image tensors carry, per element,  *)
(* the index of the input element it is, so that view/permute are index    *)
(* maps that a wrong fold or a wrong layout changes.                       *)
(***************************************************************************)
EXTENDS Integers, Sequences, FiniteSets, TLC

VARIABLES model, req, err, ret

vars == <<model, req, err, ret>>

-----------------------------------------------------------------------------
(* Bounds of the model *)

\* largest outer batch B of a forward call
MaxBatch == 2
\* largest number of time steps T of a forward call
MaxSteps == 2
\* the fixed-point unit: the integer that stands for 1.0
One == 8

-----------------------------------------------------------------------------
(* Constants of the program *)

\* nn.Linear(32, action_dim) / nn.Linear(32, 1): input width of both heads
HeadIn == 32
\* nn.Linear(2592, 2048): input width of the encoder's projection
EncLinearIn == 2592
\* state_dim = 2048
EncOut == 2048

-----------------------------------------------------------------------------
(* Python/torch values *)

None == "None"
NoModel == [cls |-> "NoModel"]

Prod(s) == LET RECURSIVE P(_)
               P(i) == IF i > Len(s) THEN 1 ELSE s[i] * P(i + 1)
           IN P(1)

\* tuple slicing t[k:] with 0-based k
From(s, k) == IF k >= Len(s) THEN <<>> ELSE SubSeq(s, k + 1, Len(s))

Abs(x) == IF x < 0 THEN -x ELSE x

\* F(v) with v evaluated once, to a value (v = v evaluates the functions in it)
Eval(v, F(_)) == CHOOSE r \in {F(y) : y \in {w \in {v} : w = w}} : TRUE

-----------------------------------------------------------------------------
(* Layers *)

Linear(i, o) == [kind |-> "Linear", in |-> i, out |-> o]
Tanh == [kind |-> "Tanh"]
ReLU == [kind |-> "ReLU"]
Flatten == [kind |-> "Flatten"]
Conv2d(i, o, k, s) == [kind |-> "Conv2d", in |-> i, out |-> o, k |-> k, stride |-> s]

\* for it, dim in enumerate(dims[:-1]): Linear(dim, dims[it + 1]), nl()
make_mlp_hidden(nl, dims) ==
    LET RECURSIVE Go(_)
        Go(it) == IF it >= Len(dims) THEN <<>>
                  ELSE <<Linear(dims[it], dims[it + 1]), nl>> \o Go(it + 1)
    IN Go(1)

-----------------------------------------------------------------------------
(* gym spaces *)

Box(shape) == [kind |-> "Box", shape |-> shape]
\* gym.spaces.Discrete(n) has shape () and the attribute n
Discrete(n) == [kind |-> "Discrete", shape |-> <<>>, n |-> n]

Raise(exc) == [ok |-> FALSE, exc |-> exc]
Return(obj) == [ok |-> TRUE, obj |-> obj]

-----------------------------------------------------------------------------
(* MemorylessActorCritic.__init__ *)

\* [x] * n
Repeat(x, n) == [i \in 1..n |-> x]

\* torch.tensor(list).view(1, 1, -1)
view_1_1_all(list) == [shape |-> <<1, 1, Len(list)>>, data |-> << <<list>> >>]

\* nn.Sequential(*make_mlp_hidden(nn.Tanh, *dims), nn.Linear(32, action_dim), nn.Tanh())
ActorLayers_noSquash(dims, action_dim) ==
    make_mlp_hidden(Tanh, dims) \o <<Linear(HeadIn, action_dim)>>

ActorLayers(dims, action_dim) ==
    make_mlp_hidden(Tanh, dims) \o <<Linear(HeadIn, action_dim), Tanh>>

\* nn.Sequential(*make_mlp_hidden(nn.Tanh, *dims), nn.Linear(32, 1))
CriticLayers(dims) ==
    make_mlp_hidden(Tanh, dims) \o <<Linear(HeadIn, 1)>>

\* register_buffer("action_std", torch.tensor([action_std] * action_dim).view(1, 1, -1))
ActionStdBuffer_oneEntry(action_std, action_dim) ==
    view_1_1_all(Repeat(action_std, 1))

ActionStdBuffer(action_std, action_dim) ==
    view_1_1_all(Repeat(action_std, action_dim))

\* the condition of both asserts: len(space.shape) == 1
HasRankOne_nonEmpty(shape) == Len(shape) >= 1

HasRankOne(shape) == Len(shape) = 1

\* seed stands for the random initial values nn.Linear / nn.Conv2d draw
MemorylessActorCritic_init(input_uuid, action_space, observation_space, action_std, mlp_hidden_dims, seed) ==
    IF input_uuid \notin DOMAIN observation_space THEN Raise("KeyError")
    ELSE IF ~HasRankOne(observation_space[input_uuid]) THEN Raise("AssertionError")
    ELSE IF ~HasRankOne(action_space.shape) THEN Raise("AssertionError")
    ELSE LET state_dim == observation_space[input_uuid][1]
             action_dim == action_space.shape[1]
             dims == <<state_dim>> \o mlp_hidden_dims
         IN Return([cls |-> "MemorylessActorCritic",
                    input_uuid |-> input_uuid,
                    action_space |-> action_space,
                    observation_space |-> observation_space,
                    encoder |-> <<>>,
                    actor |-> ActorLayers(dims, action_dim),
                    critic |-> CriticLayers(dims),
                    action_std |-> ActionStdBuffer(action_std, action_dim),
                    params |-> seed])

-----------------------------------------------------------------------------
(* ContrastiveConvolutionalActorCritic.__init__ *)

EncoderLayers ==
    <<Conv2d(3, 16, 8, 4), ReLU, Conv2d(16, 32, 4, 2), ReLU,
      Flatten, Linear(EncLinearIn, EncOut), ReLU>>

\* nn.Sequential(*make_mlp_hidden(nn.Tanh, *dims), nn.Linear(32, action_dim))
LogitLayers(dims, action_dim) ==
    make_mlp_hidden(Tanh, dims) \o <<Linear(HeadIn, action_dim)>>

ContrastiveConvolutionalActorCritic_init(input_uuid, action_space, observation_space, mlp_hidden_dims, seed) ==
    \* action_space.n exists on a Discrete space only
    IF action_space.kind # "Discrete" THEN Raise("AttributeError")
    ELSE LET state_dim == EncOut
             action_dim == action_space.n
             dims == <<state_dim>> \o mlp_hidden_dims
         IN Return([cls |-> "ContrastiveConvolutionalActorCritic",
                    input_uuid |-> input_uuid,
                    action_space |-> action_space,
                    observation_space |-> observation_space,
                    encoder |-> EncoderLayers,
                    actor |-> LogitLayers(dims, action_dim),
                    critic |-> CriticLayers(dims),
                    action_std |-> None,
                    params |-> seed])

\* _recurrent_memory_specification of both classes
recurrent_memory_specification(self) == None


-----------------------------------------------------------------------------
(* nn.Sequential on a vector batch: a tensor [shape |-> (B, T, width),     *)
(* data |-> nested sequences of fixed-point numbers]; layers act on the    *)
(* last dimension.                                                         *)

\* initial parameter values: a value per (seed, network, layer, row, column)
Weight(seed, net, l, j, i) == ((seed * 7 + net * 5 + l * 3 + j * 2 + i * (j + 1)) % 5) - 2
Bias(seed, net, l, j) == (((seed + net * 2 + l + j) % 3) - 1) * (One \div 2)

\* nn.Tanh: odd, monotone, saturating at +-1.0
TanhFix(x) ==
    IF x >= 3 * One THEN One
    ELSE IF x <= -(3 * One) THEN -One
    ELSE LET a == Abs(x)
             v == (a * (27 * One * One + a * a)) \div (27 * One * One + 9 * a * a)
         IN IF x < 0 THEN -v ELSE v

\* nn.Linear on one row: y[j] = b[j] + sum_i W[j][i] * x[i]
LinearRow(seed, net, l, lay, x) ==
    LET RECURSIVE Dot(_, _)
        Dot(j, i) == IF i = 0 THEN 0 ELSE Weight(seed, net, l, j, i) * x[i] + Dot(j, i - 1)
    IN [j \in 1..lay.out |-> Bias(seed, net, l, j) + Dot(j, lay.in)]

\* width of the last dimension
LastDim(t) == t.shape[Len(t.shape)]

\* F on every row; the rows of the result are w wide
MapRows(t, w, F(_)) ==
    [shape |-> [i \in 1..Len(t.shape) |-> IF i = Len(t.shape) THEN w ELSE t.shape[i]],
     data |-> [b \in 1..Len(t.data) |-> [s \in 1..Len(t.data[b]) |-> F(t.data[b][s])]]]

\* one layer; a Linear whose in_features differs from the input's last
\* dimension raises RuntimeError (mat1 and mat2 shapes cannot be multiplied)
ApplyLayer(seed, net, l, lay, t) ==
    IF lay.kind = "Linear"
    THEN IF LastDim(t) # lay.in THEN Raise("RuntimeError")
         ELSE LET F(x) == LinearRow(seed, net, l, lay, x) IN Return(MapRows(t, lay.out, F))
    ELSE IF lay.kind = "Tanh"
    THEN LET F(x) == [i \in 1..Len(x) |-> TanhFix(x[i])] IN Return(MapRows(t, LastDim(t), F))
    ELSE Raise("RuntimeError")

\* nn.Sequential.forward: for module in self: input = module(input)
Sequential(layers, seed, net, t) ==
    LET RECURSIVE Go(_, _)
        Go(l, r) == IF l > Len(layers) \/ ~r.ok THEN r
                    ELSE Eval(ApplyLayer(seed, net, l, layers[l], r.obj), LAMBDA y : Go(l + 1, y))
    IN Go(1, Return(t))

-----------------------------------------------------------------------------
(* MemorylessActorCritic.forward *)

Failed(exc) == [status |-> exc]

\* return (ActorCriticOutput(distributions, values, {}), None): memory is the
\* memory argument of forward, which the returned pair does not use
Returns_threadMemory(distributions, values, memory) ==
    [status |-> "ok", distributions |-> distributions, values |-> values,
     extras |-> {}, memory |-> memory]

Returns(distributions, values, memory) ==
    [status |-> "ok", distributions |-> distributions, values |-> values,
     extras |-> {}, memory |-> None]

\* observations[self.input_uuid], the one entry forward reads
Consumed_stateFirst(self, observations) ==
    IF "state" \in DOMAIN observations THEN observations["state"]
    ELSE observations[self.input_uuid]

Consumed(self, observations) == observations[self.input_uuid]

\* the instance after a call of forward: forward assigns no attribute, and
\* Linear, Tanh, Conv2d, ReLU and Flatten keep no statistics and draw nothing
AfterForward_reinit(self) == [self EXCEPT !.params = (@ + 1) % 2]

AfterForward(self) == self

MemorylessActorCritic_forward(self, observations, memory, prev_actions, masks) ==
    IF self.input_uuid \notin DOMAIN observations THEN Failed("KeyError")
    ELSE LET Result(means, values) ==
                 IF ~means.ok THEN Failed(means.exc)
                 ELSE IF ~values.ok THEN Failed(values.exc)
                 ELSE Returns([kind |-> "GaussianDistr", loc |-> means.obj,
                               scale |-> self.action_std],
                              values.obj, memory)
         IN Result(Sequential(self.actor, self.params, 0, Consumed(self, observations)),
                   Sequential(self.critic, self.params, 1, Consumed(self, observations)))

-----------------------------------------------------------------------------
(* Image tensors.  The input is [shape |-> (B, T, H, W, C), data |-> the    *)
(* image at each (b, t)].  A tensor derived from it by view/permute is its *)
(* shape and the list of the index maps applied: Source gives, for an     *)
(* index of the derived tensor, the index of the input element it holds.  *)
(* Indices are 0-based as in torch.                                        *)

\* row-major offset of idx in a contiguous tensor of this shape
Ravel(idx, shape) ==
    LET RECURSIVE R(_, _)
        R(i, acc) == IF i > Len(shape) THEN acc ELSE R(i + 1, acc * shape[i] + idx[i])
    IN R(1, 0)

\* the index at a row-major offset
Unravel(off, shape) ==
    LET RECURSIVE U(_, _)
        U(i, rem) == IF i = 0 THEN <<>>
                     ELSE Append(U(i - 1, rem \div shape[i]), rem % shape[i])
    IN U(Len(shape), off)

AsTensor(shape) == [shape |-> shape, maps |-> <<>>]

\* the shape view() gives: one -1 entry is inferred from the element count
ViewShape(shape, to) ==
    LET rest == Prod([i \in 1..Len(to) |-> IF to[i] = -1 THEN 1 ELSE to[i]])
    IN [i \in 1..Len(to) |-> IF to[i] = -1 THEN Prod(shape) \div rest ELSE to[i]]

\* Tensor.view(*to): same elements in the same row-major order, new shape
view(t, to) ==
    LET shape == ViewShape(t.shape, to)
    IN IF Prod(shape) # Prod(t.shape) THEN Raise("RuntimeError")
       ELSE Return([shape |-> shape,
                    maps |-> Append(t.maps, [op |-> "view", from |-> t.shape, to |-> shape])])

\* Tensor.permute(*dims): output dimension i is input dimension dims[i]
permute(t, dims) ==
    IF Len(dims) # Len(t.shape) THEN Raise("RuntimeError")
    ELSE Return([shape |-> [i \in 1..Len(dims) |-> t.shape[dims[i] + 1]],
                 maps |-> Append(t.maps, [op |-> "permute", dims |-> dims])])

\* one index map, backwards: the index before the map of the index after it
Unmap(m, idx) ==
    IF m.op = "view" THEN Unravel(Ravel(idx, m.to), m.from)
    ELSE [d \in 1..Len(idx) |-> idx[CHOOSE i \in 1..Len(idx) : m.dims[i] + 1 = d]]

Source(t, idx) ==
    LET RECURSIVE Back(_, _)
        Back(k, i) == IF k = 0 THEN i
                      ELSE Eval(Unmap(t.maps[k], i), LAMBDA j : Back(k - 1, j))
    IN Back(Len(t.maps), idx)

\* the layers' effect on the shape, as torch computes it
LayerShape(lay, shape) ==
    IF lay.kind = "Conv2d"
    THEN IF Len(shape) # 4 \/ shape[2] # lay.in \/ shape[3] < lay.k \/ shape[4] < lay.k
         THEN Raise("RuntimeError")
         ELSE Return(<<shape[1], lay.out, (shape[3] - lay.k) \div lay.stride + 1,
                       (shape[4] - lay.k) \div lay.stride + 1>>)
    ELSE IF lay.kind = "Flatten"
    THEN Return(<<shape[1], Prod(From(shape, 1))>>)
    ELSE IF lay.kind = "Linear"
    THEN IF shape[Len(shape)] # lay.in THEN Raise("RuntimeError")
         ELSE Return([i \in 1..Len(shape) |-> IF i = Len(shape) THEN lay.out ELSE shape[i]])
    ELSE Return(shape)

SequentialShape(layers, shape) ==
    LET RECURSIVE Go(_, _)
        Go(l, r) == IF l > Len(layers) \/ ~r.ok THEN r
                    ELSE Eval(LayerShape(layers[l], r.obj), LAMBDA y : Go(l + 1, y))
    IN Go(1, Return(shape))

Scrambled == <<-1, -1>>

\* what sample n of an (N, C, H, W) batch holds: <<b, t>> when its element
\* (c, h, w) is element (h, w, c) of the input image at (b, t) for every
\* c, h, w (the channel-first copy of that image), Scrambled otherwise
SampleOf(t, n) ==
    LET Same(first) ==
            IF \A c \in 0..(t.shape[2] - 1) : \A h \in 0..(t.shape[3] - 1) :
               \A w \in 0..(t.shape[4] - 1) :
                  Source(t, <<n, c, h, w>>) = <<first[1], first[2], h, w, c>>
            THEN <<first[1], first[2]>>
            ELSE Scrambled
    IN Eval(Source(t, <<n, 0, 0, 0>>), Same)

\* the image a sample holds: the input's image at that position
ImageAt(x, bt) == IF bt = Scrambled THEN "scrambled" ELSE x.data[bt[1] + 1][bt[2] + 1]

-----------------------------------------------------------------------------
(* ContrastiveConvolutionalActorCritic.forward *)

\* lines 150-152: fold (B, T) into one dimension, then N x H x W x C to N x C x H x W
FoldPermute_widthFirst(osizes) ==
    LET folded == view(AsTensor(osizes), <<osizes[1] * osizes[2]>> \o From(osizes, 2))
    IN IF folded.ok THEN permute(folded.obj, <<0, 3, 2, 1>>) ELSE folded

FoldPermute(osizes) ==
    LET folded == view(AsTensor(osizes), <<osizes[1] * osizes[2]>> \o From(osizes, 2))
    IN IF folded.ok THEN permute(folded.obj, <<0, 3, 1, 2>>) ELSE folded

\* SampleOf for every sample of the folded, permuted input of a given shape
Samples(osizes) ==
    Eval(FoldPermute(osizes), LAMBDA o : [n \in 0..(o.obj.shape[1] - 1) |-> SampleOf(o.obj, n)])

\* the shapes of the image inputs of the calls of this model
ImageShapes ==
    {<<B, T, 84, 84, 3>> : B \in 1..MaxBatch, T \in 1..MaxSteps}
    \cup {<<1, 2, 64, 64, 3>>, <<2, 1, 84, 84, 1>>, <<2, 84, 84, 3>>}

SamplesMemo ==
    [sh \in {s \in ImageShapes : FoldPermute(s).ok /\ SequentialShape(EncoderLayers, FoldPermute(s).obj.shape).ok}
       |-> Samples(sh)]

\* Samples, computed once for each input shape the calls below use
SamplesOf(osizes) ==
    IF osizes \in DOMAIN SamplesMemo THEN SamplesMemo[osizes] ELSE Samples(osizes)

\* self.encoder(observation): one embedding row per sample, a function of
\* the parameters and of the image the sample holds
Encode(self, x, observation) ==
    LET shape == SequentialShape(self.encoder, observation.shape)
    IN IF ~shape.ok THEN shape
       ELSE Return([shape |-> shape.obj,
                    rows |-> [n \in 0..(observation.shape[1] - 1) |->
                                [module |-> "encoder", params |-> self.params,
                                 image |-> ImageAt(x, SamplesOf(x.shape)[n])]]])

\* self.actor(embedding) / self.critic(embedding): row n of the output is a
\* function of the parameters and of row n of the embedding
HeadRows(layers, name, self, embedding) ==
    LET shape == SequentialShape(layers, embedding.shape)
    IN IF ~shape.ok THEN shape
       ELSE Return([shape |-> shape.obj,
                    rows |-> [n \in DOMAIN embedding.rows |->
                                [module |-> name, params |-> self.params,
                                 of |-> embedding.rows[n]]]])

\* element (i, j, k) of a view v of the head output out: the unit and the
\* row of out it is
Elements(v, out) ==
    [i \in 1..v.shape[1] |-> [j \in 1..v.shape[2] |-> [k \in 1..v.shape[3] |->
        LET src == Source(v, <<i - 1, j - 1, k - 1>>)
        IN [unit |-> src[2], row |-> out.rows[src[1]]]]]]

\* head_output.view(osizes[0], osizes[1], -1), as nested sequences
Unfold_timeFirst(out, osizes) ==
    Eval(view(AsTensor(out.shape), <<osizes[2], osizes[1], -1>>),
         LAMBDA v : IF ~v.ok THEN v ELSE Return(Elements(v.obj, out)))

Unfold(out, osizes) ==
    Eval(view(AsTensor(out.shape), <<osizes[1], osizes[2], -1>>),
         LAMBDA v : IF ~v.ok THEN v ELSE Return(Elements(v.obj, out)))

ContrastiveConvolutionalActorCritic_forward(self, observations, memory, prev_actions, masks) ==
    IF self.input_uuid \notin DOMAIN observations THEN Failed("KeyError")
    ELSE LET x == Consumed(self, observations)
             osizes == x.shape
             Heads(embedding) ==
                 LET actor == HeadRows(self.actor, "actor", self, embedding)
                     logits == IF actor.ok THEN Unfold(actor.obj, osizes) ELSE actor
                     critic == IF logits.ok THEN HeadRows(self.critic, "critic", self, embedding)
                               ELSE logits
                     values == IF critic.ok THEN Unfold(critic.obj, osizes) ELSE critic
                 IN IF ~values.ok THEN Failed(values.exc)
                    ELSE Returns([kind |-> "CategoricalDistr", logits |-> logits.obj],
                                 values.obj, memory)
             Encoded(observation) ==
                 IF ~observation.ok THEN Failed(observation.exc)
                 ELSE Eval(Encode(self, x, observation.obj),
                           LAMBDA embedding : IF ~embedding.ok THEN Failed(embedding.exc)
                                              ELSE Heads(embedding.obj))
         IN IF Len(osizes) < 2 THEN Failed("IndexError")
            ELSE Eval(FoldPermute(osizes), Encoded)

-----------------------------------------------------------------------------
(* Inputs *)

\* mlp_hidden_dims, ending in width 32 or not; the image model's include the
\* default (64, 32)
VectorHiddenDims == {<<8, 32>>, <<32>>, <<16>>, <<32, 16>>}
ImageHiddenDims == {<<64, 32>>, <<32>>, <<16>>, <<32, 16>>}

\* action_std: the default 0.5, and 1.0
ActionStds == {One \div 2, One}

Seeds == {0, 1}

\* observation spaces: the shape of each entry
ObservationSpaces ==
    {[state |-> <<3>>], [state |-> <<3, 3>>], [rgb |-> <<84, 84, 3>>],
     [state |-> <<2>>, rgb |-> <<84, 84, 3>>]}

InputUuids == {"state", "rgb"}

ActionSpaces == {Box(<<2>>), Box(<<1>>), Box(<<2, 2>>), Discrete(3), Discrete(2)}

\* the constructor arguments of the two classes (action_std is unused by
\* the image model)
Config(u, a, o, sd, h, seed) ==
    [input_uuid |-> u, action_space |-> a, observation_space |-> o,
     action_std |-> sd, mlp_hidden_dims |-> h, seed |-> seed]

\* the configurations constructed: a base configuration, the base with one
\* argument changed, and the base with both spaces changed
Around(base, hidden) ==
    {[base EXCEPT !.input_uuid = u] : u \in InputUuids}
    \cup {[base EXCEPT !.action_space = a, !.observation_space = o] :
             a \in ActionSpaces, o \in ObservationSpaces}
    \cup {[base EXCEPT !.action_std = sd] : sd \in ActionStds}
    \cup {[base EXCEPT !.mlp_hidden_dims = h] : h \in hidden}
    \cup {[base EXCEPT !.seed = seed] : seed \in Seeds}

VectorConfigs ==
    Around(Config("state", Box(<<2>>), [state |-> <<3>>], One \div 2, <<8, 32>>, 0),
           VectorHiddenDims)

ImageConfigs ==
    Around(Config("rgb", Discrete(3), [rgb |-> <<84, 84, 3>>], One \div 2, <<64, 32>>, 0),
           ImageHiddenDims)

\* a (B, T, S) batch of vectors
VectorBatch(B, T, S, p) ==
    [shape |-> <<B, T, S>>,
     data |-> [b \in 1..B |-> [t \in 1..T |-> [i \in 1..S |->
                 (((p * 3 + b + 2 * t + i * (p + 1)) % 5) - 2) * (One \div 2)]]]]

VectorBatches ==
    {VectorBatch(bt[1], bt[2], S, p) :
        bt \in {<<1, MaxSteps>>, <<MaxBatch, 1>>}, S \in {2, 3}, p \in {0, 1}}

\* a batch of images of one shape; the image at (b, t) is one of three
ImageBatch(shape, p) ==
    [shape |-> shape,
     data |-> [b \in 1..shape[1] |-> [t \in 1..shape[2] |->
                 IF (b * p + t) % 3 = 0 THEN "imgA"
                 ELSE IF (b * p + t) % 3 = 1 THEN "imgB" ELSE "imgC"]]]

ImageBatches == {ImageBatch(sh, p) : sh \in ImageShapes, p \in {1, 2}}

OtherImage == ImageBatch(<<1, 1, 84, 84, 3>>, 1)
OtherVector == VectorBatch(1, 1, 3, 0)

\* a call: the observation mapping (the entries under "state" and "rgb",
\* either of which may be absent) and (memory, prev_actions, masks)
Call(o, memory, prev_actions, masks) ==
    [observations |-> o, memory |-> memory, prev_actions |-> prev_actions, masks |-> masks]

VectorCalls ==
    {Call([state |-> x], None, 0, 1) : x \in VectorBatches}
    \cup {Call([state |-> x, rgb |-> OtherImage], None, 0, 1) : x \in VectorBatches}
    \cup {Call([state |-> x], "memory", 1, 0) : x \in VectorBatches}
    \cup {Call([rgb |-> OtherImage], None, 0, 1)}

ImageCalls ==
    {Call([rgb |-> x], None, 0, 1) : x \in ImageBatches}
    \cup {Call([rgb |-> x, state |-> OtherVector], None, 0, 1) : x \in ImageBatches}
    \cup {Call([rgb |-> x], "memory", 1, 0) : x \in ImageBatches}
    \cup {Call([state |-> OtherVector], None, 0, 1)}

-----------------------------------------------------------------------------
(* The program: construct a model, then call forward any number of times  *)

NoCall == [status |-> "none"]

Init ==
    /\ model = NoModel
    /\ req = [cls |-> "none"]
    /\ err = None
    /\ ret = NoCall

Constructed(r) ==
    /\ model' = IF r.ok THEN r.obj ELSE NoModel
    /\ err' = IF r.ok THEN None ELSE r.exc
    /\ ret' = NoCall

ConstructVector(c) ==
    /\ req.cls = "none"
    /\ req' = [cls |-> "MemorylessActorCritic"] @@ c
    /\ Constructed(MemorylessActorCritic_init(c.input_uuid, c.action_space,
                       c.observation_space, c.action_std, c.mlp_hidden_dims, c.seed))

ConstructImage(c) ==
    /\ req.cls = "none"
    /\ req' = [cls |-> "ContrastiveConvolutionalActorCritic"] @@ c
    /\ Constructed(ContrastiveConvolutionalActorCritic_init(c.input_uuid, c.action_space,
                       c.observation_space, c.mlp_hidden_dims, c.seed))

\* the call and what it returned (or the exception it raised)
Returned(call, r) == [call |-> call] @@ r

ForwardVector(call) ==
    /\ model.cls = "MemorylessActorCritic"
    /\ ret' = Returned(call, MemorylessActorCritic_forward(model, call.observations,
                                 call.memory, call.prev_actions, call.masks))
    /\ model' = AfterForward(model)
    /\ UNCHANGED <<req, err>>

ForwardImage(call) ==
    /\ model.cls = "ContrastiveConvolutionalActorCritic"
    /\ ret' = Returned(call, ContrastiveConvolutionalActorCritic_forward(model,
                                 call.observations, call.memory, call.prev_actions, call.masks))
    /\ model' = AfterForward(model)
    /\ UNCHANGED <<req, err>>

Next ==
    \/ \E c \in VectorConfigs : ConstructVector(c)
    \/ \E c \in ImageConfigs : ConstructImage(c)
    \/ \E call \in VectorCalls : ForwardVector(call)
    \/ \E call \in ImageCalls : ForwardImage(call)

Spec == Init /\ [][Next]_vars

-----------------------------------------------------------------------------
(* Properties *)

IsVector == model.cls = "MemorylessActorCritic"
IsImage == model.cls = "ContrastiveConvolutionalActorCritic"
HasCalled == ret.status # "none"
HasEntry == HasCalled /\ model.input_uuid \in DOMAIN ret.call.observations
\* the entry of the last call's observations under the configured key
Entry == ret.call.observations[model.input_uuid]

\* the last call gave the image model a (B, T, H, W, 3) tensor with B, T >= 1
ImageInput ==
    /\ IsImage
    /\ HasEntry
    /\ Len(Entry.shape) = 5
    /\ Entry.shape[5] = 3
    /\ Entry.shape[1] >= 1
    /\ Entry.shape[2] >= 1

\* v is a (B, T, K) nest of sequences
IsNest(v, B, T, K) ==
    /\ Len(v) = B
    /\ \A b \in 1..B : Len(v[b]) = T
    /\ \A b \in 1..B : \A t \in 1..T : Len(v[b][t]) = K

\* the call returned logits of shape (B, T, K) and values of shape (B, T, 1)
ShapesPreserved ==
    /\ ret.status = "ok"
    /\ IsNest(ret.distributions.logits, Entry.shape[1], Entry.shape[2], model.action_space.n)
    /\ IsNest(ret.values, Entry.shape[1], Entry.shape[2], 1)

\* C1 as stated: for every (B, T, H, W, 3) input with B, T >= 1 the forward
\* pass of the image model completes and returns logits of shape (B, T, K)
\* and values of shape (B, T, 1).
C1_AsStated == ImageInput => ShapesPreserved

\* positions left along one side of length n by the two convolutions
\* (kernel 8 stride 4, then kernel 4 stride 2, no padding)
ConvPositions(n) == (((n - 8) \div 4 + 1) - 4) \div 2 + 1

\* the widths for which the pass completes: 32 channels times the
\* positions left is 2592, and the last hidden width is 32
Completes ==
    /\ Entry.shape[3] >= 20 /\ Entry.shape[4] >= 20
    /\ 32 * ConvPositions(Entry.shape[3]) * ConvPositions(Entry.shape[4]) = 2592
    /\ Len(req.mlp_hidden_dims) > 0
    /\ req.mlp_hidden_dims[Len(req.mlp_hidden_dims)] = 32

\* C1, amended: for a (B, T, H, W, 3) input with B, T >= 1, whenever the
\* forward pass of the image model completes it returns logits of shape
\* (B, T, K) and values of shape (B, T, 1); it completes exactly when the
\* convolutions leave 81 positions (as for 84 x 84 images) and the last
\* hidden width is 32 (as in the default), and raises RuntimeError otherwise.
C1_ShapesWhenComplete ==
    ImageInput =>
        /\ ret.status = "ok" => ShapesPreserved
        /\ ret.status = "ok" <=> Completes
        /\ ret.status \in {"ok", "RuntimeError"}

C1_Witness == ImageInput /\ ret.status = "ok" /\ Entry.shape[1] # Entry.shape[2]

\* C2: constructing the vector model with the key in the observation space
\* raises AssertionError and yields no instance when the selected entry or
\* the action space does not have rank 1, and succeeds when both have.
C2_RankAsserts ==
    (req.cls = "MemorylessActorCritic" /\ req.input_uuid \in DOMAIN req.observation_space) =>
        IF Len(req.observation_space[req.input_uuid]) = 1 /\ Len(req.action_space.shape) = 1
        THEN err = None /\ IsVector
        ELSE err = "AssertionError" /\ model = NoModel

C2_Witness ==
    /\ req.cls = "MemorylessActorCritic"
    /\ req.input_uuid \in DOMAIN req.observation_space
    /\ Len(req.observation_space[req.input_uuid]) = 2
    /\ err = "AssertionError"
    /\ model = NoModel

\* C3 as stated: every model that construction yields has its configured
\* key in its observation space, with an entry of the dimensionality the
\* model consumes (a vector for the vector model, an H x W x 3 image for the
\* image model); a construction violating this fails at construction.
C3_AsStated ==
    model # NoModel =>
        /\ model.input_uuid \in DOMAIN model.observation_space
        /\ IsVector => Len(model.observation_space[model.input_uuid]) = 1
        /\ IsImage => /\ Len(model.observation_space[model.input_uuid]) = 3
                      /\ model.observation_space[model.input_uuid][3] = 3

\* C4: every forward call that returns, on either model and whatever memory
\* it was given, returns a null memory token and an empty auxiliary map, and
\* the recurrent memory specification of every model is null.
C4_NoMemory ==
    /\ ret.status = "ok" => ret.memory = None /\ ret.extras = {}
    /\ model # NoModel => recurrent_memory_specification(model) = None

C4_Witness == ret.status = "ok" /\ ret.call.memory # None /\ IsImage

\* C5: the vector model's standard deviation is the (1, 1, D) tensor whose
\* every component is the action_std given at construction, in the buffer
\* and in the distribution every forward call returns.
C5_ConstantStd ==
    IsVector =>
        LET D == req.action_space.shape[1]
            expected == [shape |-> <<1, 1, D>>,
                         data |-> << <<[i \in 1..D |-> req.action_std]>> >>]
        IN /\ model.action_std = expected
           /\ ret.status = "ok" => ret.distributions.scale = expected

C5_Witness ==
    /\ IsVector
    /\ ret.status = "ok"
    /\ req.action_std = One
    /\ Len(model.action_std.data[1][1]) = 2
    /\ Entry.shape[1] = MaxBatch

\* C6: every component of the mean a forward call of the vector model
\* returns lies in [-1, 1].
C6_MeanBounded ==
    (IsVector /\ ret.status = "ok") =>
        \A b \in 1..Len(ret.distributions.loc.data) :
            \A t \in 1..Len(ret.distributions.loc.data[b]) :
                \A i \in 1..Len(ret.distributions.loc.data[b][t]) :
                    ret.distributions.loc.data[b][t][i] \in (-One)..One

\* a returned mean whose value before the final tanh lies outside [-1, 1]
C6_Witness ==
    /\ IsVector
    /\ ret.status = "ok"
    /\ LET pre == Sequential(SubSeq(model.actor, 1, Len(model.actor) - 1),
                             model.params, 0, Entry).obj.data
       IN \E b \in 1..Len(pre) : \E t \in 1..Len(pre[b]) : \E i \in 1..Len(pre[b][t]) :
             Abs(pre[b][t][i]) > One

Linears(layers) == SelectSeq(layers, LAMBDA l : l.kind = "Linear")

\* every linear layer's input width is the output width of the one before,
\* from width first to width last
Chained(layers, first, last) ==
    LET lin == Linears(layers)
    IN /\ Len(lin) > 0
       /\ lin[1].in = first
       /\ lin[Len(lin)].out = last
       /\ \A i \in 2..Len(lin) : lin[i].in = lin[i - 1].out

\* C8 as stated: for every non-empty sequence of hidden widths the actor and
\* critic of the vector model are chains of linear layers whose widths fit,
\* from S to D and from S to 1, and a forward pass on an S-dimensional
\* observation succeeds.
C8_AsStated ==
    IsVector =>
        LET S == req.observation_space[req.input_uuid][1]
        IN /\ Chained(model.actor, S, req.action_space.shape[1])
           /\ Chained(model.critic, S, 1)
           /\ (HasEntry /\ Entry.shape[3] = S) => ret.status = "ok"

\* C9: in a completed forward call of the image model the logits and the
\* value at (b, t) are those of the embedding of the input image at (b, t),
\* read channel-first, both heads read the same embedding row, and logit k
\* is unit k of the actor's output.
C9_FoldUnfold ==
    (ImageInput /\ ret.status = "ok") =>
        /\ ShapesPreserved
        /\ \A b \in 1..Entry.shape[1] : \A t \in 1..Entry.shape[2] :
              LET v == ret.values[b][t][1]
              IN /\ v.unit = 0
                 /\ v.row.module = "critic"
                 /\ v.row.of.module = "encoder"
                 /\ v.row.of.image = Entry.data[b][t]
                 /\ \A k \in 1..model.action_space.n :
                       /\ ret.distributions.logits[b][t][k].unit = k - 1
                       /\ ret.distributions.logits[b][t][k].row.module = "actor"
                       /\ ret.distributions.logits[b][t][k].row.of = v.row.of

C9_Witness ==
    /\ ImageInput
    /\ ret.status = "ok"
    /\ Entry.shape[1] >= 2
    /\ Entry.shape[2] >= 2
    /\ Entry.data[1][2] # Entry.data[2][1]

\* what a call returned or raised, without the call itself
Outcome(r) == [f \in DOMAIN r \ {"call"} |-> r[f]]

\* the entry a call gives under the configured key, if any
EntryOf(call) ==
    IF model.input_uuid \in DOMAIN call.observations
    THEN <<call.observations[model.input_uuid]>>
    ELSE <<>>

\* C10: two calls of a model with the same entry under the configured key
\* have the same outcome, whatever memory, prev_actions, masks and other
\* entries each was given.
C10_ArgumentsIgnored ==
    [][(req' = req /\ HasCalled /\ EntryOf(ret'.call) = EntryOf(ret.call)) =>
          Outcome(ret') = Outcome(ret)]_vars

C10_Witness ==
    /\ ret.status = "ok"
    /\ DOMAIN ret.call.observations = {"state", "rgb"}
    /\ IsVector

====
